---- MODULE Spec2Model ----
(***************************************************************************)
(* A model of the two units of the repository:                             *)
(*   - java/src/main/native/src/ContiguousTableJni.cpp: the binding shim   *)
(*     (the cached class/method handles, the hand-off of a packed table    *)
(*      to the managed runtime, the two exported metadata entry points);   *)
(*   - cpp/tests/experimental/TypeList.hpp: the compile-time type lists    *)
(*     (Concat, Flatten, CrossJoin, AllSame, ContainedIn, RemoveIf).       *)
(* The shim is checked under Spec, the type lists under SpecTL.            *)
(***************************************************************************)
EXTENDS Integers, Sequences, FiniteSets, TLC

\* ------------------------------------------------------------- bounds
\* packed_columns objects (and so metadata / device buffers) ever created
MaxSplits == 1
\* global references the managed runtime ever hands out
MaxRefs == 2
\* largest metadata vector size
MaxSize == 1
\* closeMetadata calls made with one handle
MaxCloseCalls == 2
\* largest array length asked of contiguous_table_array
MaxArrayLen == 1

\* longest type list given to CrossJoin and RemoveIf
MaxLen == 2
\* most type lists given to one CrossJoin
MaxLists == 2

\* nullptr, and a zero jlong handle
NULL == 0

Splits == 1..MaxSplits
Refs == 1..MaxRefs

VARIABLES
  Contiguous_table_jclass,   \* the cached class handle: NULL or a global reference
  From_packed_table_method,  \* the cached factory method handle: NULL or METHOD
  globalRefs,                \* runtime: each global reference is "free", "live" or "deleted"
  refFault,                  \* runtime: a DeleteGlobalRef was given a reference that is not live
  splits,                    \* native: the packed_columns objects and their two owning pointers
  metaHeap,                  \* native heap: the std::vector<uint8_t> metadata buffers
  gpuHeap,                   \* native heap: the rmm::device_buffer objects
  javaOwned,                 \* handles held by a ContiguousTable the factory returned
  offered,                   \* handles the factory was ever called with
  closeCalls,                \* number of closeMetadata calls per handle
  cacheOk,                   \* history: the latest cache call returned true, no release since
  last,                      \* history: the latest call, its arguments and its outcome
  inject,                    \* whether a try body may raise (FALSE under Spec: no body does)
  tlOp, tlIn, tlOut          \* the type-list evaluation (SpecTL)

shimVars == <<Contiguous_table_jclass, From_packed_table_method, globalRefs, refFault,
              splits, metaHeap, gpuHeap, javaOwned, offered, closeCalls, cacheOk>>
tlVars == <<tlOp, tlIn, tlOut>>
vars == <<shimVars, last, inject, tlVars>>

\* the one method handle GetStaticMethodID can return
METHOD == 1
\* a non-null jobject
OBJECT == 1

\* the record of a call; the fields a call does not use keep these values
\*   op, arg, ret    the call, its argument, the value it returned
\*   rt              what the managed runtime returned to the call's last request
\*   cls, mid        the cached handles the call passed to the managed runtime
\*   ok              cacheOk when the call was made
\*   fc, gm, ng      what FindClass, GetStaticMethodID, NewGlobalRef answer
\*   lookups         how many of the three a cache call made
\*   deleted         the reference a release call gave to DeleteGlobalRef
\*   addr, cap       the address and capacity asked of NewDirectByteBuffer
\*   deref           the call read or deleted through its handle
\*   pending         the call left a managed error pending
\*   thrown, escaped an exception was raised in the try body; it left the entry point
NoCall ==
  [op |-> "none", arg |-> NULL, ret |-> NULL, rt |-> NULL, pending |-> FALSE,
   cls |-> NULL, mid |-> NULL, ok |-> FALSE, fc |-> NULL, gm |-> NULL, ng |-> NULL,
   lookups |-> 0, deleted |-> NULL, addr |-> NULL, cap |-> 0, deref |-> FALSE,
   thrown |-> FALSE, escaped |-> FALSE]

Call(op, arg) == [NoCall EXCEPT !.op = op, !.arg = arg]

B2I(b) == IF b THEN 1 ELSE 0

\* ------------------------------------------------- the managed runtime
\* NewGlobalRef hands out the lowest reference not yet in use, or NULL when it fails
FreshRef == IF \E r \in Refs : globalRefs[r] = "free"
            THEN CHOOSE r \in Refs : globalRefs[r] = "free" /\ \A q \in Refs : globalRefs[q] = "free" => r <= q
            ELSE NULL

NewGlobalRefResults == {NULL, FreshRef}

\* ------------------------------------------------- cache_contiguous_table_jni
\* cls: what FindClass returns (NULL or a local reference), mid: what
\* GetStaticMethodID returns, ref: what NewGlobalRef returns.
\* The result of the call: the value returned, the lookups made, and the two
\* statics as the call leaves them (each assigned only where the code assigns it).
\* CacheStep without the check of line 40: a null method handle is cached
CacheStepNoMethodCheck(cls, mid, ref) ==
  IF cls = NULL THEN
    [ret |-> FALSE, lookups |-> 1,
     method |-> From_packed_table_method, class |-> Contiguous_table_jclass]
  ELSE IF ref = NULL THEN
    [ret |-> FALSE, lookups |-> 3, method |-> mid, class |-> ref]
  ELSE
    [ret |-> TRUE, lookups |-> 3, method |-> mid, class |-> ref]

\* CacheStep without the check of line 46: a failed NewGlobalRef reports success
CacheStepNoRefCheck(cls, mid, ref) ==
  IF cls = NULL THEN
    [ret |-> FALSE, lookups |-> 1,
     method |-> From_packed_table_method, class |-> Contiguous_table_jclass]
  ELSE IF mid = NULL THEN
    [ret |-> FALSE, lookups |-> 2, method |-> mid, class |-> Contiguous_table_jclass]
  ELSE
    [ret |-> TRUE, lookups |-> 3, method |-> mid, class |-> ref]

CacheStep(cls, mid, ref) ==
  IF cls = NULL THEN
    [ret |-> FALSE, lookups |-> 1,
     method |-> From_packed_table_method, class |-> Contiguous_table_jclass]
  ELSE IF mid = NULL THEN
    [ret |-> FALSE, lookups |-> 2, method |-> mid, class |-> Contiguous_table_jclass]
  ELSE IF ref = NULL THEN
    [ret |-> FALSE, lookups |-> 3, method |-> mid, class |-> ref]
  ELSE
    [ret |-> TRUE, lookups |-> 3, method |-> mid, class |-> ref]

cache_contiguous_table_jni(cls, mid, ref) ==
  /\ ref \in NewGlobalRefResults
  /\ LET r == CacheStep(cls, mid, ref) IN
     /\ From_packed_table_method' = r.method
     /\ Contiguous_table_jclass' = r.class
     /\ globalRefs' = IF r.lookups = 3 /\ ref # NULL
                      THEN [globalRefs EXCEPT ![ref] = "live"]
                      ELSE globalRefs
     /\ cacheOk' = r.ret
     /\ last' = [Call("cache", NULL) EXCEPT !.ret = B2I(r.ret), !.lookups = r.lookups,
                                            !.fc = cls, !.gm = mid, !.ng = ref]
  /\ UNCHANGED <<refFault, splits, metaHeap, gpuHeap, javaOwned, offered, closeCalls,
                 inject, tlVars>>

\* ------------------------------------------------- release_contiguous_table_jni
\* release_contiguous_table_jni without line 55: the deleted reference stays cached
release_keeps_handle ==
  /\ IF Contiguous_table_jclass # NULL THEN
       /\ globalRefs' = [globalRefs EXCEPT ![Contiguous_table_jclass] = "deleted"]
       /\ refFault' = (refFault \/ globalRefs[Contiguous_table_jclass] # "live")
       /\ last' = [Call("release", NULL) EXCEPT !.cls = Contiguous_table_jclass,
                                                !.deleted = Contiguous_table_jclass]
       /\ UNCHANGED Contiguous_table_jclass
     ELSE
       /\ last' = [Call("release", NULL) EXCEPT !.cls = Contiguous_table_jclass]
       /\ UNCHANGED <<Contiguous_table_jclass, globalRefs, refFault>>
  /\ cacheOk' = FALSE
  /\ UNCHANGED <<From_packed_table_method, splits, metaHeap, gpuHeap, javaOwned, offered,
                 closeCalls, inject, tlVars>>

release_contiguous_table_jni ==
  /\ IF Contiguous_table_jclass # NULL THEN
       /\ globalRefs' = [globalRefs EXCEPT ![Contiguous_table_jclass] = "deleted"]
       /\ refFault' = (refFault \/ globalRefs[Contiguous_table_jclass] # "live")
       /\ Contiguous_table_jclass' = NULL
       /\ last' = [Call("release", NULL) EXCEPT !.cls = Contiguous_table_jclass,
                                                !.deleted = Contiguous_table_jclass]
     ELSE
       /\ last' = [Call("release", NULL) EXCEPT !.cls = Contiguous_table_jclass]
       /\ UNCHANGED <<Contiguous_table_jclass, globalRefs, refFault>>
  /\ cacheOk' = FALSE
  /\ UNCHANGED <<From_packed_table_method, splits, metaHeap, gpuHeap, javaOwned, offered,
                 closeCalls, inject, tlVars>>

\* ------------------------------------------------- cudf::packed_columns
\* The native caller packs a table: packed_columns number s owns metadata
\* buffer s (a std::vector<uint8_t> of the given size, its storage at an
\* address that is no handle's value) and device buffer s.
NextSplit == IF \E s \in Splits : splits[s].st = "none"
             THEN CHOOSE s \in Splits : splits[s].st = "none" /\ \A q \in Splits : splits[q].st = "none" => s <= q
             ELSE NULL

PackColumns(size) ==
  /\ NextSplit # NULL
  /\ splits' = [splits EXCEPT ![NextSplit] = [st |-> "live", metadata |-> NextSplit, gpu_data |-> NextSplit]]
  /\ metaHeap' = [metaHeap EXCEPT ![NextSplit] = [st |-> "live", data |-> NextSplit + MaxSplits, size |-> size,
                                                  frees |-> 0, by |-> {}]]
  /\ gpuHeap' = [gpuHeap EXCEPT ![NextSplit] = [st |-> "live", frees |-> 0]]
  /\ last' = Call("pack", NextSplit)
  /\ UNCHANGED <<Contiguous_table_jclass, From_packed_table_method, globalRefs, refFault,
                 javaOwned, offered, closeCalls, cacheOk, inject, tlVars>>

\* delete of a metadata vector, by the named owner
DeleteMetadata(heap, h, who) ==
  [heap EXCEPT ![h].st = "freed", ![h].frees = @ + 1, ![h].by = @ \cup {who}]

\* ~packed_columns: each owning pointer that is not null deletes what it owns
DestroyPackedColumns(s) ==
  /\ splits[s].st = "live"
  /\ splits' = [splits EXCEPT ![s].st = "dead"]
  /\ metaHeap' = IF splits[s].metadata # NULL
                 THEN DeleteMetadata(metaHeap, splits[s].metadata, "native")
                 ELSE metaHeap
  /\ gpuHeap' = IF splits[s].gpu_data # NULL
                THEN [gpuHeap EXCEPT ![splits[s].gpu_data].st = "freed", ![splits[s].gpu_data].frees = @ + 1]
                ELSE gpuHeap
  /\ last' = Call("destroy", s)
  /\ UNCHANGED <<Contiguous_table_jclass, From_packed_table_method, globalRefs, refFault,
                 javaOwned, offered, closeCalls, cacheOk, inject, tlVars>>

\* ------------------------------------------------- contiguous_table_from
\* lines 69-72: the two owning pointers of split after the factory returned obj
\* ReleaseOwnership without the test of line 69: released whatever the factory returned
ReleaseOwnershipAlways(split, obj) ==
  [split EXCEPT !.metadata = NULL, !.gpu_data = NULL]

\* ReleaseOwnership without line 70: the split keeps the metadata it handed over
ReleaseOwnershipKeepsMetadata(split, obj) ==
  IF obj # NULL
  THEN [split EXCEPT !.gpu_data = NULL]
  ELSE split

ReleaseOwnership(split, obj) ==
  IF obj # NULL
  THEN [split EXCEPT !.metadata = NULL, !.gpu_data = NULL]
  ELSE split

\* obj: what CallStaticObjectMethod returns. The cached handles are passed as
\* they are; split.gpu_data is dereferenced (lines 61-62), so the split still
\* owns its device buffer when the call is made.
contiguous_table_from(s, obj) ==
  /\ splits[s].st = "live"
  /\ splits[s].gpu_data # NULL
  /\ LET metadata_address == splits[s].metadata IN
     /\ offered' = offered \cup ({metadata_address} \ {NULL})
     /\ javaOwned' = IF obj # NULL THEN javaOwned \cup ({metadata_address} \ {NULL})
                     ELSE javaOwned
  /\ splits' = [splits EXCEPT ![s] = ReleaseOwnership(splits[s], obj)]
  /\ last' = [Call("from", s) EXCEPT !.ret = obj, !.rt = obj,
                                     !.cls = Contiguous_table_jclass,
                                     !.mid = From_packed_table_method, !.ok = cacheOk]
  /\ UNCHANGED <<Contiguous_table_jclass, From_packed_table_method, globalRefs, refFault,
                 metaHeap, gpuHeap, closeCalls, cacheOk, inject, tlVars>>

\* ------------------------------------------------- contiguous_table_array
\* arr: what NewObjectArray returns
contiguous_table_array(length, arr) ==
  /\ last' = [Call("array", length) EXCEPT !.ret = arr, !.rt = arr,
                                           !.cls = Contiguous_table_jclass,
                                           !.ok = cacheOk]
  /\ UNCHANGED <<shimVars, inject, tlVars>>

\* ------------------------------------------------- the exported entry points
\* JNI_NULL_CHECK(env, obj, msg, ret_val): TRUE when obj is zero; the entry
\* point then raises the managed error and returns ret_val at once.
JNI_NULL_CHECK(obj) == obj = NULL

\* What the null check leaves of a call: the error pending, ret_val returned.
NullCheckFailed(call) == [call EXCEPT !.pending = TRUE, !.ret = NULL]

\* CATCH_STD(env, ret_val): an exception raised in the try body is caught,
\* raised again as the managed runtime's pending error, and ret_val returned.
CATCH_STD(call) ==
  [call EXCEPT !.thrown = TRUE, !.escaped = FALSE, !.pending = TRUE, !.ret = NULL]

\* handles the managed caller can pass: zero, or one the factory was given
JavaHandles == {NULL} \cup offered

\* whether a try body raises: never under Spec
Raises == IF inject THEN BOOLEAN ELSE {FALSE}

\* Data mistaken for the address of the vector object itself
DataIsHandle(h) == h

\* metadata->data(): the address of the vector's storage
Data(h) == metaHeap[h].data

\* metadata->data() and metadata->size() as read through handle h: the
\* vector's own while it is live, anything once it has been deleted
ReadVector(h) ==
  IF metaHeap[h].st = "live"
  THEN {[addr |-> Data(h), cap |-> metaHeap[h].size]}
  ELSE [addr : {NULL, Data(h)}, cap : 0..MaxSize]

\* buf: what NewDirectByteBuffer returns (NULL when the runtime fails)
\* createMetadataDirectBuffer with no handler around the body
createMetadataDirectBuffer_no_catch(h, raise, buf) ==
  /\ h \in JavaHandles
  /\ raise \in Raises
  /\ LET call == Call("createMetadataDirectBuffer", h) IN
     IF JNI_NULL_CHECK(h) THEN
       last' = NullCheckFailed(call)
     ELSE IF raise THEN
       last' = [call EXCEPT !.thrown = TRUE, !.escaped = TRUE]
     ELSE
       \E v \in ReadVector(h) :
         last' = [call EXCEPT !.deref = TRUE, !.addr = v.addr, !.cap = v.cap,
                              !.rt = buf, !.ret = buf]
  /\ UNCHANGED <<shimVars, inject, tlVars>>

Java_ai_rapids_cudf_ContiguousTable_createMetadataDirectBuffer(h, raise, buf) ==
  /\ h \in JavaHandles
  /\ raise \in Raises
  /\ LET call == Call("createMetadataDirectBuffer", h) IN
     IF JNI_NULL_CHECK(h) THEN
       last' = NullCheckFailed(call)
     ELSE IF raise THEN
       last' = CATCH_STD(call)
     ELSE
       \E v \in ReadVector(h) :
         last' = [call EXCEPT !.deref = TRUE, !.addr = v.addr, !.cap = v.cap,
                              !.rt = buf, !.ret = buf]
  /\ UNCHANGED <<shimVars, inject, tlVars>>

\* closeMetadata without line 99: delete of a null pointer does nothing, silently
closeMetadata_no_null_check(h, raise) ==
  /\ h \in JavaHandles
  /\ raise \in Raises
  /\ h # NULL => closeCalls[h] < MaxCloseCalls
  /\ LET call == Call("closeMetadata", h) IN
     IF h = NULL THEN
       /\ last' = call
       /\ UNCHANGED <<metaHeap, closeCalls>>
     ELSE IF raise THEN
       /\ last' = CATCH_STD(call)
       /\ closeCalls' = [closeCalls EXCEPT ![h] = @ + 1]
       /\ UNCHANGED metaHeap
     ELSE
       /\ metaHeap' = DeleteMetadata(metaHeap, h, "closeMetadata")
       /\ closeCalls' = [closeCalls EXCEPT ![h] = @ + 1]
       /\ last' = [call EXCEPT !.deref = TRUE]
  /\ UNCHANGED <<Contiguous_table_jclass, From_packed_table_method, globalRefs, refFault,
                 splits, gpuHeap, javaOwned, offered, cacheOk, inject, tlVars>>

Java_ai_rapids_cudf_ContiguousTable_closeMetadata(h, raise) ==
  /\ h \in JavaHandles
  /\ raise \in Raises
  /\ h # NULL => closeCalls[h] < MaxCloseCalls
  /\ LET call == Call("closeMetadata", h) IN
     IF JNI_NULL_CHECK(h) THEN
       /\ last' = NullCheckFailed(call)
       /\ UNCHANGED <<metaHeap, closeCalls>>
     ELSE IF raise THEN
       /\ last' = CATCH_STD(call)
       /\ closeCalls' = [closeCalls EXCEPT ![h] = @ + 1]
       /\ UNCHANGED metaHeap
     ELSE
       /\ metaHeap' = DeleteMetadata(metaHeap, h, "closeMetadata")
       /\ closeCalls' = [closeCalls EXCEPT ![h] = @ + 1]
       /\ last' = [call EXCEPT !.deref = TRUE]
  /\ UNCHANGED <<Contiguous_table_jclass, From_packed_table_method, globalRefs, refFault,
                 splits, gpuHeap, javaOwned, offered, cacheOk, inject, tlVars>>

\* ------------------------------------------------- the shim's specification
\* the statics are zero-initialised (lines 24-25); the runtime holds no reference
HandlesInit ==
  /\ Contiguous_table_jclass = NULL
  /\ From_packed_table_method = NULL
  /\ globalRefs = [r \in Refs |-> "free"]
  /\ refFault = FALSE
  /\ cacheOk = FALSE
  /\ last = NoCall

\* the state a cache_contiguous_table_jni call that returned true leaves
HandlesLoaded ==
  /\ Contiguous_table_jclass = 1
  /\ From_packed_table_method = METHOD
  /\ globalRefs = [r \in Refs |-> IF r = 1 THEN "live" ELSE "free"]
  /\ refFault = FALSE
  /\ cacheOk = TRUE
  /\ last = [Call("cache", NULL) EXCEPT !.ret = B2I(TRUE), !.lookups = 3,
                                        !.fc = OBJECT, !.gm = METHOD, !.ng = 1]

\* no table has been packed
BuffersInit ==
  /\ splits = [s \in Splits |-> [st |-> "none", metadata |-> NULL, gpu_data |-> NULL]]
  /\ metaHeap = [s \in Splits |-> [st |-> "unalloc", data |-> NULL, size |-> 0, frees |-> 0, by |-> {}]]
  /\ gpuHeap = [s \in Splits |-> [st |-> "unalloc", frees |-> 0]]
  /\ javaOwned = {}
  /\ offered = {}
  /\ closeCalls = [s \in Splits |-> 0]

TLIdle == tlOp = "none" /\ tlIn = <<>> /\ tlOut = <<>>

Init == HandlesInit /\ BuffersInit /\ inject = FALSE /\ TLIdle

Cache == \E cls \in {NULL, OBJECT}, mid \in {NULL, METHOD}, ref \in {NULL} \cup Refs :
           cache_contiguous_table_jni(cls, mid, ref)
Release == release_contiguous_table_jni
Pack == \E size \in 0..MaxSize : PackColumns(size)
Destroy == \E s \in Splits : DestroyPackedColumns(s)
From == \E s \in Splits, obj \in {NULL, OBJECT} : contiguous_table_from(s, obj)
Array == \E length \in 0..MaxArrayLen, arr \in {NULL, OBJECT} : contiguous_table_array(length, arr)
CreateMetadataDirectBuffer ==
  \E h \in {NULL} \cup Splits, raise \in BOOLEAN, buf \in {NULL, OBJECT} :
    Java_ai_rapids_cudf_ContiguousTable_createMetadataDirectBuffer(h, raise, buf)
CloseMetadata ==
  \E h \in {NULL} \cup Splits, raise \in BOOLEAN :
    Java_ai_rapids_cudf_ContiguousTable_closeMetadata(h, raise)

\* every call the shim offers
Next ==
  \/ Cache
  \/ Release
  \/ Pack
  \/ Destroy
  \/ From
  \/ Array
  \/ CreateMetadataDirectBuffer
  \/ CloseMetadata

Spec == Init /\ [][Next]_vars

\* The handle cache: the calls that read or write the two cached handles,
\* from an unloaded library.
NextHandles ==
  \/ Cache
  \/ Release
  \/ Pack
  \/ From
  \/ Array

SpecHandles == Init /\ [][NextHandles]_vars

\* The packed-table buffers: the calls that read or change the ownership of
\* the buffers, in a library whose load cached both handles.
InitLoaded == HandlesLoaded /\ BuffersInit /\ inject = FALSE /\ TLIdle

NextBuffers ==
  \/ Pack
  \/ Destroy
  \/ From
  \/ CreateMetadataDirectBuffer
  \/ CloseMetadata

SpecBuffers == InitLoaded /\ [][NextBuffers]_vars

\* The same with an exception raised inside the try bodies, which no
\* statement of the bodies as written does: it exercises the catch handlers.
InitRaise == HandlesLoaded /\ BuffersInit /\ inject = TRUE /\ TLIdle

SpecRaise == InitRaise /\ [][NextBuffers]_vars

\* =================================================================
\* TypeList.hpp: compile-time lists of types
\* =================================================================
\* A type is a plain type, named, or a list Types<...> of types.
T(name) == [name |-> name, items |-> <<>>]
Types(items) == [name |-> "", items |-> items]
IsTypes(t) == t.name = ""

\* detail::Concat2<Types<T...>, Types<U...>>
Concat2(A, B) == Types(A.items \o B.items)

\* ConcatImpl<...>: no list, one list, or the first two joined and the rest
RECURSIVE ConcatImpl(_)
ConcatImpl(args) ==
  IF Len(args) = 0 THEN Types(<<>>)
  ELSE IF Len(args) = 1 THEN args[1]
  ELSE ConcatImpl(<<Concat2(args[1], args[2])>> \o SubSeq(args, 3, Len(args)))

Concat(args) == ConcatImpl(args)

\* FlattenImpl<Types<...>>: a head that is a list is spliced into the list
RECURSIVE FlattenImpl(_)
FlattenImpl(t) ==
  IF Len(t.items) = 0 THEN Types(<<>>)
  ELSE IF IsTypes(Head(t.items)) THEN FlattenImpl(Types(Head(t.items).items \o Tail(t.items)))
  ELSE Concat(<<Types(<<Head(t.items)>>), FlattenImpl(Types(Tail(t.items)))>>)

Flatten(t) == FlattenImpl(t)

\* Prepend1 that puts T behind the tuple
Prepend1AtEnd(t, tuple) == Flatten(Types(tuple.items \o <<t>>))

\* detail::Prepend1<T, Types<ARGS...>>
Prepend1(t, tuple) == Flatten(Types(<<t>> \o tuple.items))

\* detail::Prepend<T, Types<TUPLES...>>: T in front of every tuple, leading
\* empty tuples skipped
RECURSIVE Prepend(_, _)
Prepend(t, tuples) ==
  IF Len(tuples.items) > 0 /\ Head(tuples.items) = Types(<<>>)
  THEN Prepend(t, Types(Tail(tuples.items)))
  ELSE Types([i \in 1..Len(tuples.items) |-> Prepend1(t, tuples.items[i])])

\* CrossJoinImpl<ARGS...>
RECURSIVE CrossJoinImpl(_)
CrossJoinImpl(args) ==
  IF Len(args) = 0 THEN Types(<<>>)
  ELSE IF ~IsTypes(args[1]) THEN CrossJoinImpl(<<Types(<<args[1]>>)>> \o Tail(args))
  ELSE IF Len(args) = 1 THEN Types([i \in 1..Len(args[1].items) |-> Types(<<args[1].items[i]>>)])
  ELSE Concat([i \in 1..Len(args[1].items) |->
                 Prepend(args[1].items[i], CrossJoinImpl(Tail(args)))])

CrossJoin(args) == CrossJoinImpl(args)

\* detail::AllSame<ITEMS...>: the primary template is false_type
RECURSIVE detail_AllSame(_)
detail_AllSame(items) ==
  IF Len(items) = 1 /\ IsTypes(items[1]) THEN detail_AllSame(items[1].items)
  ELSE IF Len(items) = 1 THEN TRUE
  ELSE IF Len(items) = 2 /\ items[1] = items[2] THEN TRUE
  ELSE IF Len(items) > 2 /\ items[1] = items[2] THEN detail_AllSame(Tail(items))
  ELSE FALSE

\* AllSame::Call<ITEMS...>
AllSame_Call(items) == detail_AllSame(items)

\* ExistsImpl<NEEDLE, HAYSACK>: a linear search
RECURSIVE ExistsImpl(_, _)
ExistsImpl(needle, haysack) ==
  IF Len(haysack.items) = 0 THEN FALSE
  ELSE IF Head(haysack.items) = needle THEN TRUE
  ELSE ExistsImpl(needle, Types(Tail(haysack.items)))

\* the predicates RemoveIf is given
AllSame == [kind |-> "AllSame", haysack |-> Types(<<>>)]
ContainedIn(haysack) == [kind |-> "ContainedIn", haysack |-> haysack]

\* PRED::template Call<HEAD>::value
PredCall(pred, head) ==
  IF pred.kind = "AllSame" THEN AllSame_Call(<<head>>) ELSE ExistsImpl(head, pred.haysack)

\* RemoveIfImpl with the two branches of the conditional exchanged
RECURSIVE RemoveIfImplKeepsMatches(_, _)
RemoveIfImplKeepsMatches(pred, tuple) ==
  IF Len(tuple.items) = 0 THEN Types(<<>>)
  ELSE Concat(<<IF PredCall(pred, Head(tuple.items)) THEN Types(<<Head(tuple.items)>>)
                                                      ELSE Types(<<>>),
                RemoveIfImplKeepsMatches(pred, Types(Tail(tuple.items)))>>)

\* RemoveIfImpl<PRED, Types<HEAD, TAIL...>>
RECURSIVE RemoveIfImpl(_, _)
RemoveIfImpl(pred, tuple) ==
  IF Len(tuple.items) = 0 THEN Types(<<>>)
  ELSE Concat(<<IF PredCall(pred, Head(tuple.items)) THEN Types(<<>>)
                                                      ELSE Types(<<Head(tuple.items)>>),
                RemoveIfImpl(pred, Types(Tail(tuple.items)))>>)

RemoveIf(pred, tuple) == RemoveIfImpl(pred, tuple)

\* ------------------------------------------------- the inputs
\* the plain types of the header's examples
PlainTypes == {T("int"), T("char")}

SeqsUpTo(S, n) == UNION {[1..k -> S] : k \in 0..n}

\* the lists of plain types
TypeLists == {Types(s) : s \in SeqsUpTo(PlainTypes, MaxLen)}

\* what a list of test parameters holds: plain types, the empty tuple, pairs
Elements == PlainTypes \cup {Types(<<>>)} \cup {Types(<<a, b>>) : a, b \in PlainTypes}

Predicates == {AllSame} \cup {ContainedIn(Types(<<e>>)) : e \in Elements}

\* the lists AllSame::Call is asked about: lists of parameters, and lists of
\* plain types one longer (Types<int, int, int> of line 282)
AllSameLists ==
       {Types(s) : s \in SeqsUpTo(Elements, MaxLen)}
  \cup {Types(s) : s \in [1..(MaxLen + 1) -> PlainTypes]}

TLInputs ==
       {[op |-> "CrossJoin", args |-> a] : a \in SeqsUpTo(TypeLists, MaxLists) \ {<<>>}}
  \cup {[op |-> "RemoveIf", pred |-> p, tuple |-> Types(s)] :
          p \in Predicates, s \in SeqsUpTo(Elements, MaxLen)}
  \cup {[op |-> "RemoveIfAllSameCrossJoin", list |-> l] : l \in TypeLists}
  \cup {[op |-> "AllSame", list |-> l] : l \in AllSameLists}

\* ------------------------------------------------- the specification
InitTL ==
  /\ HandlesInit /\ BuffersInit /\ inject = FALSE
  /\ tlOp = "none"
  /\ tlIn \in TLInputs
  /\ tlOut = <<>>

\* using Types = CrossJoin<L1, ..., Ln>
EvalCrossJoin ==
  /\ tlOp = "none" /\ tlIn.op = "CrossJoin"
  /\ tlOp' = "CrossJoin"
  /\ tlOut' = CrossJoin(tlIn.args)
  /\ UNCHANGED <<shimVars, last, inject, tlIn>>

\* using Types = RemoveIf<PRED, TUPLE>
EvalRemoveIf ==
  /\ tlOp = "none" /\ tlIn.op = "RemoveIf"
  /\ tlOp' = "RemoveIf"
  /\ tlOut' = RemoveIf(tlIn.pred, tlIn.tuple)
  /\ UNCHANGED <<shimVars, last, inject, tlIn>>

\* using Types = RemoveIf<AllSame, CrossJoin<L, L>>  (lines 52-53)
EvalRemoveIfAllSameCrossJoin ==
  /\ tlOp = "none" /\ tlIn.op = "RemoveIfAllSameCrossJoin"
  /\ tlOp' = "RemoveIfAllSameCrossJoin"
  /\ tlOut' = RemoveIf(AllSame, CrossJoin(<<tlIn.list, tlIn.list>>))
  /\ UNCHANGED <<shimVars, last, inject, tlIn>>

\* AllSame::Call<Types<...>>::value
EvalAllSame ==
  /\ tlOp = "none" /\ tlIn.op = "AllSame"
  /\ tlOp' = "AllSame"
  /\ tlOut' = AllSame_Call(<<tlIn.list>>)
  /\ UNCHANGED <<shimVars, last, inject, tlIn>>

NextTL ==
  \/ EvalCrossJoin
  \/ EvalRemoveIf
  \/ EvalRemoveIfAllSameCrossJoin
  \/ EvalAllSame

SpecTL == InitTL /\ [][NextTL]_vars

\* =================================================================
\* The type lists' claims
\* =================================================================
int == T("int")
char == T("char")

\* the product of the lengths of args[i], args[i+1], ...
RECURSIVE LenProduct(_, _)
LenProduct(args, i) ==
  IF i > Len(args) THEN 1 ELSE Len(args[i].items) * LenProduct(args, i + 1)

\* the k-th tuple of the cartesian product in lexicographic order, the first
\* list varying slowest
TupleAt(args, k) ==
  Types([i \in 1..Len(args) |->
           args[i].items[(((k - 1) \div LenProduct(args, i + 1)) % Len(args[i].items)) + 1]])

NoDuplicates(list) ==
  \A i, j \in 1..Len(list.items) : list.items[i] = list.items[j] => i = j

\* C9: CrossJoin<L1,...,Ln> of n >= 1 lists of plain types is the cartesian
\* product of the lists: as many tuples as the product of the lengths (none
\* when a list is empty), the k-th being the k-th choice of one element per
\* list in lexicographic order, the first list varying slowest; so every
\* choice appears exactly once, and no tuple twice when no list repeats a type.
C9_CrossJoinIsCartesianProduct ==
  tlOp = "CrossJoin" =>
    /\ IsTypes(tlOut)
    /\ Len(tlOut.items) = LenProduct(tlIn.args, 1)
    /\ \A k \in 1..Len(tlOut.items) : tlOut.items[k] = TupleAt(tlIn.args, k)
    /\ (\E i \in 1..Len(tlIn.args) : Len(tlIn.args[i].items) = 0) => tlOut = Types(<<>>)
    /\ (\A i \in 1..Len(tlIn.args) : NoDuplicates(tlIn.args[i])) => NoDuplicates(tlOut)

\* CrossJoin<Types<int,char>, Types<char,int>>: four pairs
C9_Witness ==
  /\ tlOp = "CrossJoin"
  /\ tlIn.args = <<Types(<<int, char>>), Types(<<char, int>>)>>
  /\ tlOut = Types(<<Types(<<int, char>>), Types(<<int, int>>),
                     Types(<<char, char>>), Types(<<char, int>>)>>)

\* the ordered pairs of two different types of list, in the order of CrossJoin
DifferentPairs(list) ==
  LET n == Len(list.items)
      pairs == [k \in 1..(n * n) |-> <<((k - 1) \div n) + 1, ((k - 1) % n) + 1>>]
      kept == SelectSeq(pairs, LAMBDA p : list.items[p[1]] # list.items[p[2]])
  IN  [k \in 1..Len(kept) |-> Types(<<list.items[kept[k][1]], list.items[kept[k][2]]>>)]

AllIdentical(list) ==
  \A i, j \in 1..Len(list.items) : list.items[i] = list.items[j]

\* C11: AllSame::Call<L> is true exactly when every element of the list L is
\* the same type as every other, whatever the length of L, the empty list
\* and the one-element lists included.
C11_AllSameIffAllIdentical ==
  tlOp = "AllSame" => (tlOut <=> AllIdentical(tlIn.list))

\* =================================================================
\* The shim's claims
\* =================================================================

\* C1: contiguous_table_from gives up the ownership of split.metadata and
\* split.gpu_data exactly when the factory returns a non-null object: then
\* both owning pointers are left null; on a null result both stay as they
\* were, still owning; no buffer is freed by the call either way, and the
\* call returns what the factory returned.
C1_OwnershipFollowsFactoryResult ==
  [][\A s \in Splits :
       (last'.op = "from" /\ last'.arg = s) =>
         /\ last'.ret = last'.rt
         /\ last'.ret # NULL => splits'[s].metadata = NULL /\ splits'[s].gpu_data = NULL
         /\ last'.ret = NULL =>
              /\ splits'[s] = splits[s]
              /\ splits'[s].metadata # NULL
              /\ splits'[s].gpu_data # NULL
         /\ metaHeap' = metaHeap
         /\ gpuHeap' = gpuHeap]_vars

\* a hand-over that succeeded: the split owns nothing, both buffers are live
C1_Witness ==
  /\ last.op = "from"
  /\ last.ret # NULL
  /\ splits[last.arg].metadata = NULL
  /\ splits[last.arg].gpu_data = NULL
  /\ metaHeap[last.arg].st = "live"
  /\ gpuHeap[last.arg].st = "live"

\* C2: cache_contiguous_table_jni returns true exactly when FindClass,
\* GetStaticMethodID and NewGlobalRef all answer non-null; it stops at the
\* first null answer and returns false, raising nothing itself; after a true
\* result both cached handles are non-null.
C2_CacheResultIsAllThreeLookups ==
  last.op = "cache" =>
    /\ (last.ret = B2I(TRUE)) <=> (last.fc # NULL /\ last.gm # NULL /\ last.ng # NULL)
    /\ last.ret \in {B2I(TRUE), B2I(FALSE)}
    /\ last.lookups = (IF last.fc = NULL THEN 1 ELSE IF last.gm = NULL THEN 2 ELSE 3)
    /\ ~last.pending /\ ~last.thrown
    /\ last.ret = B2I(TRUE) =>
         Contiguous_table_jclass # NULL /\ From_packed_table_method # NULL

\* a cache call that returned true
C2_Witness ==
  /\ last.op = "cache"
  /\ last.ret = B2I(TRUE)
  /\ Contiguous_table_jclass # NULL
  /\ From_packed_table_method # NULL

\* C3 as claimed: whatever the sequence of calls, contiguous_table_from and
\* contiguous_table_array reach the managed runtime only with non-null cached
\* handles, after a cache call that returned true and no release since.
C3_NeverCalledWithNullHandle ==
  last.op \in {"from", "array"} =>
    /\ last.ok
    /\ last.cls # NULL
    /\ last.op = "from" => last.mid # NULL

\* C3 as amended: the shim passes its cached handles unchecked; when the
\* latest cache call returned true and release has not run since, the
\* handles contiguous_table_from and contiguous_table_array pass are non-null.
C3_NonNullHandlesAfterSuccessfulCache ==
  (last.op \in {"from", "array"} /\ last.ok) =>
    /\ last.cls # NULL
    /\ last.op = "from" => last.mid # NULL

\* the factory invoked after a successful cache
C3_Witness ==
  /\ last.op = "from"
  /\ last.ok
  /\ last.cls # NULL
  /\ last.mid # NULL

\* C4: at createMetadataDirectBuffer and closeMetadata a zero handle is caught
\* by the null check: the error is left pending, null is returned, the handle
\* is not dereferenced, and closeMetadata deletes nothing.
C4_NullHandleRejected ==
  /\ [](last.op \in {"createMetadataDirectBuffer", "closeMetadata"} /\ last.arg = NULL =>
          last.pending /\ last.ret = NULL /\ ~last.deref)
  /\ [][(last'.op \in {"createMetadataDirectBuffer", "closeMetadata"} /\ last'.arg = NULL) =>
          UNCHANGED <<metaHeap, gpuHeap, splits, closeCalls>>]_vars

\* closeMetadata given zero while a metadata buffer is live
C4_Witness ==
  /\ last.op = "closeMetadata"
  /\ last.arg = NULL
  /\ last.pending
  /\ \E b \in Splits : metaHeap[b].st = "live" /\ b \in javaOwned

\* C5: after release_contiguous_table_jni the cached class handle is null; a
\* release that finds it null makes no DeleteGlobalRef call and changes
\* nothing; no global reference is ever deleted twice.
C5_ReleasedOnce ==
  /\ []((last.op = "release" => Contiguous_table_jclass = NULL) /\ ~refFault)
  /\ [][(last'.op = "release" /\ Contiguous_table_jclass = NULL) =>
          /\ last'.deleted = NULL
          /\ UNCHANGED shimVars]_vars

\* a second release, after one that deleted the reference
C5_Witness ==
  /\ last.op = "release"
  /\ last.cls = NULL
  /\ last.deleted = NULL
  /\ \E r \in Refs : globalRefs[r] = "deleted"

\* C6: createMetadataDirectBuffer given the handle of a live metadata buffer
\* asks the runtime for a direct buffer at the vector's data pointer with the
\* vector's size as capacity, and returns what the runtime made of it; the
\* call changes no buffer, no owner and no cached handle.
C6_DirectBufferIsView ==
  /\ []((last.op = "createMetadataDirectBuffer" /\ last.arg # NULL
           /\ metaHeap[last.arg].st = "live") =>
          /\ last.addr = metaHeap[last.arg].data
          /\ last.cap = metaHeap[last.arg].size
          /\ last.ret = last.rt
          /\ ~last.pending)
  /\ [][(last'.op = "createMetadataDirectBuffer" /\ last'.arg # NULL) =>
          UNCHANGED shimVars]_vars

\* a direct buffer returned for a live buffer the managed side owns
C6_Witness ==
  /\ last.op = "createMetadataDirectBuffer"
  /\ last.arg # NULL
  /\ last.ret # NULL
  /\ metaHeap[last.arg].st = "live"
  /\ last.arg \in javaOwned

\* the caller closes a handle at most once, and only one a construction gave it
CallerKeepsProtocol(b) ==
  /\ closeCalls[b] <= 1
  /\ closeCalls[b] > 0 => b \in javaOwned

\* every owner of buffer b has let go of it
OwnersDone(b) ==
  IF b \in javaOwned THEN closeCalls[b] = 1 ELSE splits[b].st = "dead"

\* C7: a metadata buffer handed to contiguous_table_from has one owner: once
\* the factory succeeded the native packed_columns never frees it; while the
\* caller keeps the protocol, a buffer whose factory call failed is freed by
\* the native owner only, no buffer is freed twice, and a buffer whose owners
\* are done has been freed exactly once.
C7_MetadataFreedOnceByOwner ==
  \A b \in offered :
    /\ b \in javaOwned => "native" \notin metaHeap[b].by
    /\ (CallerKeepsProtocol(b) /\ b \notin javaOwned) => metaHeap[b].by \subseteq {"native"}
    /\ CallerKeepsProtocol(b) => metaHeap[b].frees <= 1
    /\ (CallerKeepsProtocol(b) /\ OwnersDone(b)) => metaHeap[b].frees = 1

\* handed over, closed once, the packed_columns destroyed afterwards
C7_Witness ==
  \E b \in offered :
    /\ b \in javaOwned
    /\ closeCalls[b] = 1
    /\ splits[b].st = "dead"
    /\ metaHeap[b].frees = 1
    /\ metaHeap[b].by = {"closeMetadata"}

\* C8: an exception raised in the body of createMetadataDirectBuffer or
\* closeMetadata does not leave the entry point: it is caught, left pending
\* as a managed error, and the entry point returns its failure value.
C8_ExceptionsCaught ==
  (last.op \in {"createMetadataDirectBuffer", "closeMetadata"} /\ last.thrown) =>
    /\ ~last.escaped
    /\ last.pending
    /\ last.ret = NULL

\* an exception raised while a live buffer was being viewed
C8_Witness ==
  /\ last.op = "createMetadataDirectBuffer"
  /\ last.thrown
  /\ last.arg # NULL
  /\ metaHeap[last.arg].st = "live"

\* the global references made by cache_contiguous_table_jni and not yet deleted
LiveGlobalRefs == {r \in Refs : globalRefs[r] = "live"}

\* C12: whatever sequence of cache_contiguous_table_jni and
\* release_contiguous_table_jni calls has run, at most one global reference is
\* live and it is the one in the cached class handle, so that after a release
\* no global reference is live.
C12_NoLeakedGlobalRef ==
  /\ Cardinality(LiveGlobalRefs) <= 1
  /\ LiveGlobalRefs \subseteq {Contiguous_table_jclass}
  /\ (last.op = "release" => LiveGlobalRefs = {})

====
